---- MODULE Spec2Model ----
(***************************************************************************)
(* Model of hack/push-to-quay.py: the loader of the upgrade graph          *)
(* (load_nodes, load_edges) and the reconciliation of the graph with the   *)
(* labels of the release images' manifests (push, sync_node, get_labels,   *)
(* delete_label, post_label, get_release_metadata).                        *)
(*                                                                         *)
(* A Python string is a tuple of one-character strings ("a,b" is           *)
(* <<"a", ",", "b">>), so that str.split, str.join and sorted are          *)
(* modelled by what they do.  A Python dict is a function whose DOMAIN is  *)
(* the set of its keys (key in d  is  key \in DOMAIN d).                   *)
(*                                                                         *)
(* The registry is modelled as far as the program reads and writes it:     *)
(* per manifest the mapping from label key to label value that get_labels  *)
(* builds (line 172), and the 'previous' list of the release metadata.     *)
(* Not modelled: the payload pullspec (manifest_uri's non-Quay error), the *)
(* JSON parse errors of the loaders, the label's media_type and the        *)
(* diagnostics printed at lines 83, 110, 125, 139 and 145.                 *)
(***************************************************************************)
EXTENDS Integers, Sequences, FiniteSets, TLC

VARIABLES
    channelFiles,   \* the files under channels/, in os.walk order
    edgeFiles,      \* the files under edges/, in os.walk order
    nodes,          \* the in-memory mapping version -> node of the last run
    meta,           \* registry: version -> 'previous' of the release metadata
    remote,         \* registry: version -> (label key -> label value)
    remote0,        \* history: the registry's labels in the initial state
    run             \* history: what the last operation did

vars == <<channelFiles, edgeFiles, nodes, meta, remote, remote0, run>>

-----------------------------------------------------------------------------
(* Bounds *)

\* most comma-separated entries of a label value the registry starts with
MaxEntries == 2
\* most files under edges/ (SpecLoad)
MaxEdgeFiles == 2
\* number of nodes of the graph that push reconciles (Spec)
NumNodes == 2

-----------------------------------------------------------------------------
(* Strings *)

\* the characters, in code point order: '*' 42, ',' 44, digits, letters
Ascii == <<"*", ",", "1", "2", "3", "f", "s">>

VersionChars == <<"1", "2", "3">>

\* the version names label values and release metadata speak of
Versions == {<<"1">>, <<"2">>}

\* the channel directories
Channels == {<<"f">>, <<"s">>}

Comma == <<",">>

Wildcard == <<"*">>

Range(f) == {f[x] : x \in DOMAIN f}

CharRank(c) == CHOOSE i \in 1..Len(Ascii) : Ascii[i] = c

\* s < t for Python strings (lexicographic, a proper prefix is smaller)
RECURSIVE StrLess(_, _)
StrLess(s, t) ==
    IF t = <<>> THEN FALSE
    ELSE IF s = <<>> THEN TRUE
    ELSE IF Head(s) = Head(t) THEN StrLess(Tail(s), Tail(t))
    ELSE CharRank(Head(s)) < CharRank(Head(t))

\* sorted(S) for a set of strings
RECURSIVE sorted(_)
sorted(S) ==
    IF S = {} THEN <<>>
    ELSE LET m == CHOOSE x \in S : \A y \in S \ {x} : StrLess(x, y)
         IN  <<m>> \o sorted(S \ {m})

\* sep.join(parts)
RECURSIVE join(_, _)
join(sep, parts) ==
    IF parts = <<>> THEN <<>>
    ELSE IF Len(parts) = 1 THEN parts[1]
    ELSE parts[1] \o sep \o join(sep, Tail(parts))

\* s.split(',')
RECURSIVE split(_)
split(s) ==
    IF \A i \in 1..Len(s) : s[i] # ","
    THEN <<s>>
    ELSE LET i == CHOOSE k \in 1..Len(s) :
                      s[k] = "," /\ \A j \in 1..(k - 1) : s[j] # ","
         IN  <<SubSeq(s, 1, i - 1)>> \o split(SubSeq(s, i + 1, Len(s)))

\* set(version for version in value.split(',') if version)
versions_of(value) == {x \in Range(split(value)) : x # <<>>}

-----------------------------------------------------------------------------
(* Label keys *)

KeyChannels == "io.openshift.upgrades.graph.release.channels"

KeyNextAdd == "io.openshift.upgrades.graph.next.add"

KeyNextRemove == "io.openshift.upgrades.graph.next.remove"

KeyPreviousAdd == "io.openshift.upgrades.graph.previous.add"

KeyPreviousRemove == "io.openshift.upgrades.graph.previous.remove"

Keys == {KeyChannels, KeyNextAdd, KeyNextRemove, KeyPreviousAdd, KeyPreviousRemove}

\* d.get(key, default)
Get(d, key, default) == IF key \in DOMAIN d THEN d[key] ELSE default

EmptyDict == [x \in {} |-> x]

-----------------------------------------------------------------------------
(* Graph loader *)

\* the loop of load_nodes over the files under channels/, each a record
\* [channel, version]; the channel is the name of the file's directory
RECURSIVE load_nodes_walk(_, _)
load_nodes_walk(files, acc) ==
    IF files = <<>> THEN acc
    ELSE LET f == Head(files)
         IN  IF f.version \in DOMAIN acc
             THEN load_nodes_walk(Tail(files),
                      [acc EXCEPT ![f.version].channels = @ \cup {f.channel}])
             ELSE load_nodes_walk(Tail(files),
                      (f.version :> [version |-> f.version, channels |-> {f.channel}])
                          @@ acc)

\* node['metadata'][release.channels] = ','.join(sorted(node['channels']))
with_metadata(node) ==
    node @@ ("metadata" :> (KeyChannels :> join(Comma, sorted(node.channels))))

load_nodes(files) ==
    LET acc == load_nodes_walk(files, EmptyDict)
    IN  [v \in DOMAIN acc |-> with_metadata(acc[v])]

\* the order of nodes.values(): the order in which the versions were inserted
RECURSIVE node_order(_, _)
node_order(files, seen) ==
    IF files = <<>> THEN <<>>
    ELSE IF Head(files).version \in seen THEN node_order(Tail(files), seen)
    ELSE <<Head(files).version>>
             \o node_order(Tail(files), seen \cup {Head(files).version})

\* lines 38-41: add the edge's from-version to the to-node's previous set
add_previous(to_node, from) ==
    IF "previous" \in DOMAIN to_node
    THEN [to_node EXCEPT !.previous = @ \cup {from}]
    ELSE ("previous" :> {from}) @@ to_node

\* load_edge with the channels compared by inclusion: an edge in fewer
\* channels than its nodes share is accepted
load_edge_subset(edge, edges, ns) ==
    LET edge_key == <<edge.from, edge.to>>
        edges1 == (edge_key :> edge) @@ edges
    IN  IF edge_key \in DOMAIN edges
        THEN [err |-> "duplicate", edges |-> edges, nodes |-> ns]
        ELSE IF edge.from \notin DOMAIN ns \/ edge.to \notin DOMAIN ns
        THEN [err |-> "KeyError", edges |-> edges1, nodes |-> ns]
        ELSE IF ~(edge.channels \subseteq (ns[edge.from].channels \cap ns[edge.to].channels))
        THEN [err |-> "channels", edges |-> edges1, nodes |-> ns]
        ELSE [err |-> "none", edges |-> edges1,
              nodes |-> [ns EXCEPT ![edge.to] = add_previous(ns[edge.to], edge.from)]]

\* load_edge with the channels checked before the duplicate
load_edge_channels_first(edge, edges, ns) ==
    LET edge_key == <<edge.from, edge.to>>
        edges1 == (edge_key :> edge) @@ edges
    IN  IF edge.from \notin DOMAIN ns \/ edge.to \notin DOMAIN ns
        THEN [err |-> "KeyError", edges |-> edges, nodes |-> ns]
        ELSE IF edge.channels # (ns[edge.from].channels \cap ns[edge.to].channels)
        THEN [err |-> "channels", edges |-> edges, nodes |-> ns]
        ELSE IF edge_key \in DOMAIN edges
        THEN [err |-> "duplicate", edges |-> edges, nodes |-> ns]
        ELSE [err |-> "none", edges |-> edges1,
              nodes |-> [ns EXCEPT ![edge.to] = add_previous(ns[edge.to], edge.from)]]

\* lines 29-41: one pass of the loop of load_edges, for the file's record
\* edge = [from, to, channels].  The result holds the error raised ("none" if
\* none is) and the two dicts as they are then.
load_edge(edge, edges, ns) ==
    LET edge_key == <<edge.from, edge.to>>
        edges1 == (edge_key :> edge) @@ edges
    IN  IF edge_key \in DOMAIN edges
        THEN [err |-> "duplicate", edges |-> edges, nodes |-> ns]
        ELSE IF edge.from \notin DOMAIN ns \/ edge.to \notin DOMAIN ns
        THEN [err |-> "KeyError", edges |-> edges1, nodes |-> ns]
        ELSE LET from_node == ns[edge.from]
                 to_node == ns[edge.to]
                 node_channels == from_node.channels \cap to_node.channels
             IN  IF edge.channels # node_channels
                 THEN [err |-> "channels", edges |-> edges1, nodes |-> ns]
                 ELSE [err |-> "none", edges |-> edges1,
                       nodes |-> [ns EXCEPT ![edge.to] =
                                      add_previous(to_node, edge.from)]]

\* the loop of load_edges over the files under edges/; i is the number of
\* files read so far, at the index of the file the error was raised at
RECURSIVE load_edges_walk(_, _, _, _)
load_edges_walk(files, i, edges, ns) ==
    IF i = Len(files) THEN [err |-> "none", at |-> i, edges |-> edges, nodes |-> ns]
    ELSE LET r == load_edge(files[i + 1], edges, ns)
         IN  IF r.err # "none"
             THEN [err |-> r.err, at |-> i + 1, edges |-> r.edges, nodes |-> r.nodes]
             ELSE load_edges_walk(files, i + 1, r.edges, r.nodes)

load_edges(files, ns) == load_edges_walk(files, 0, EmptyDict, ns)

\* node.get('previous', set())
declared_previous(node) == Get(node, "previous", {})

-----------------------------------------------------------------------------
(* Registry and label writer *)

(* The state of one run, threaded through the calls in program order:       *)
(*   remote   the registry's labels                                        *)
(*   calls    the HTTP requests sent so far, [method, uri, body]            *)
(*   out      the lines printed by delete_label and post_label,             *)
(*            [version, verb, uri]                                          *)
(*   done     the versions whose sync_node has returned                     *)
(*   failed   an exception is propagating: nothing more executes           *)
(*   failAt   the index of the request that fails (0: none does)            *)
(*   lost     whether the failing request took effect before its error      *)
start(labels, failAt, lost) ==
    [remote |-> labels, calls |-> <<>>, out |-> <<>>, done |-> <<>>,
     failed |-> FALSE, failAt |-> failAt, lost |-> lost]

\* manifest_uri(node), as the tuple of its path below the repository
manifest_uri(node) == <<node.version>>

\* the registry after DELETE {manifest}/labels/{key}
registry_delete(labels, version, key) ==
    [labels EXCEPT ![version] = [k \in (DOMAIN @) \ {key} |-> @[k]]]

\* the registry after POST {manifest}/labels with body {key, value}: the
\* label created is the one get_labels finds under the key from then on
\* (line 172 keeps the last label of a key)
registry_post(labels, version, key, value) ==
    [labels EXCEPT ![version] = (key :> value) @@ @]

\* urlopen(request): the request is sent; it raises when it is the one that
\* fails, having taken effect or not, and the registry is `after` otherwise
urlopen(s, request, after) ==
    IF Len(s.calls) + 1 = s.failAt
    THEN [s EXCEPT !.calls = Append(@, request),
                   !.failed = TRUE,
                   !.remote = IF s.lost THEN after ELSE @]
    ELSE [s EXCEPT !.calls = Append(@, request), !.remote = after]

get_labels(s, node) ==
    IF s.failed THEN s
    ELSE urlopen(s, [method |-> "GET",
                     uri |-> manifest_uri(node) \o <<"labels">>,
                     body |-> <<>>], s.remote)

\* the manifest is fetched, then the blob of its last layer
get_release_metadata(s, node) ==
    IF s.failed THEN s
    ELSE LET s1 == urlopen(s, [method |-> "GET", uri |-> manifest_uri(node),
                               body |-> <<>>], s.remote)
         IN  IF s1.failed THEN s1
             ELSE urlopen(s1, [method |-> "GET",
                               uri |-> <<node.version, "blobs">>,
                               body |-> <<>>], s1.remote)

\* delete_label that returns before it prints when there is no token
delete_label_silent(s, node, label, token) ==
    IF s.failed \/ ~token THEN s
    ELSE LET uri == manifest_uri(node) \o <<"labels", label>>
             s1 == [s EXCEPT !.out = Append(@, [version |-> node.version,
                                                verb |-> "delete", uri |-> uri])]
         IN  urlopen(s1, [method |-> "DELETE", uri |-> uri, body |-> <<>>],
                     registry_delete(s1.remote, node.version, label))

delete_label(s, node, label, token) ==
    IF s.failed THEN s
    ELSE LET uri == manifest_uri(node) \o <<"labels", label>>
             s1 == [s EXCEPT !.out = Append(@, [version |-> node.version,
                                                verb |-> "delete", uri |-> uri])]
         IN  IF ~token THEN s1
             ELSE urlopen(s1, [method |-> "DELETE", uri |-> uri, body |-> <<>>],
                          registry_delete(s1.remote, node.version, label))

post_label(s, node, key, value, token) ==
    IF s.failed THEN s
    ELSE LET uri == manifest_uri(node) \o <<"labels">>
             s1 == [s EXCEPT !.out = Append(@, [version |-> node.version,
                                                verb |-> "post", uri |-> uri])]
         IN  IF ~token THEN s1
             ELSE urlopen(s1, [method |-> "POST", uri |-> uri,
                               body |-> <<key, value>>],
                          registry_post(s1.remote, node.version, key, value))

-----------------------------------------------------------------------------
(* Reconciler *)

\* lines 81-97: the release.channels label
sync_channels(s, node, labels, token) ==
    LET want == node.metadata[KeyChannels]
        channels == Get(labels, KeyChannels, <<>>)
        mismatch == channels # <<>> /\ channels # want
        s1 == IF mismatch THEN delete_label(s, node, KeyChannels, token) ELSE s
        channels1 == IF mismatch THEN <<>> ELSE channels
    IN  IF channels1 = <<>>
        THEN post_label(s1, node, KeyChannels, want, token)
        ELSE s1

\* sync_next that forgets next.remove
sync_next_add_only(s, node, labels, token) ==
    IF KeyNextAdd \in DOMAIN labels
    THEN delete_label(s, node, KeyNextAdd, token) ELSE s

\* lines 99-102: the retired next.add and next.remove labels
sync_next(s, node, labels, token) ==
    LET s1 == IF KeyNextAdd \in DOMAIN labels
              THEN delete_label(s, node, KeyNextAdd, token) ELSE s
    IN  IF KeyNextRemove \in DOMAIN labels
        THEN delete_label(s1, node, KeyNextRemove, token) ELSE s1

\* sync_previous_label that creates the label also when want is empty
sync_previous_label_posts_empty(s, node, labels, key, want, token) ==
    LET current == versions_of(Get(labels, key, <<>>))
    IN  IF current # want
        THEN LET s1 == IF key \in DOMAIN labels
                       THEN delete_label(s, node, key, token) ELSE s
             IN  post_label(s1, node, key, join(Comma, sorted(want)), token)
        ELSE s

\* sync_previous_label that deletes without looking whether the label is there
sync_previous_label_blind_delete(s, node, labels, key, want, token) ==
    LET current == versions_of(Get(labels, key, <<>>))
    IN  IF current # want
        THEN LET s1 == delete_label(s, node, key, token)
             IN  IF want # {}
                 THEN post_label(s1, node, key, join(Comma, sorted(want)), token)
                 ELSE s1
        ELSE s

\* lines 108-121 and 123-136: one of previous.remove and previous.add, for a
\* node with incoming edges
sync_previous_label(s, node, labels, key, want, token) ==
    LET current == versions_of(Get(labels, key, <<>>))
    IN  IF current # want
        THEN LET s1 == IF key \in DOMAIN labels
                       THEN delete_label(s, node, key, token) ELSE s
             IN  IF want # {}
                 THEN post_label(s1, node, key, join(Comma, sorted(want)), token)
                 ELSE s1
        ELSE s

\* lines 105-136: a node with incoming edges
sync_previous(s, node, labels, published, token) ==
    LET s1 == get_release_metadata(s, node)
        previous == published
        want_removed == previous \ node.previous
        s2 == sync_previous_label(s1, node, labels, KeyPreviousRemove,
                                  want_removed, token)
        want_added == node.previous \ previous
    IN  sync_previous_label(s2, node, labels, KeyPreviousAdd, want_added, token)

\* sync_no_previous that does not look whether previous.remove is "*" already
sync_no_previous_always(s, node, labels, published, token) ==
    LET s1 == IF KeyPreviousAdd \in DOMAIN labels
              THEN delete_label(s, node, KeyPreviousAdd, token) ELSE s
        s2 == get_release_metadata(s1, node)
    IN  IF published # {}
        THEN LET s3 == IF KeyPreviousRemove \in DOMAIN labels
                       THEN delete_label(s2, node, KeyPreviousRemove, token)
                       ELSE s2
             IN  post_label(s3, node, KeyPreviousRemove, Wildcard, token)
        ELSE s2

\* sync_no_previous that leaves a previous.add label where it is
sync_no_previous_keeps_add(s, node, labels, published, token) ==
    LET previous_remove == Get(labels, KeyPreviousRemove, <<>>)
    IN  IF previous_remove # Wildcard
        THEN LET s2 == get_release_metadata(s, node)
             IN  IF published # {}
                 THEN LET s3 == IF KeyPreviousRemove \in DOMAIN labels
                                THEN delete_label(s2, node, KeyPreviousRemove, token)
                                ELSE s2
                      IN  post_label(s3, node, KeyPreviousRemove, Wildcard, token)
                 ELSE s2
        ELSE s

\* lines 138-155: a node with no incoming edges
sync_no_previous(s, node, labels, published, token) ==
    LET s1 == IF KeyPreviousAdd \in DOMAIN labels
              THEN delete_label(s, node, KeyPreviousAdd, token) ELSE s
        previous_remove == Get(labels, KeyPreviousRemove, <<>>)
    IN  IF previous_remove # Wildcard
        THEN LET s2 == get_release_metadata(s1, node)
             IN  IF published # {}
                 THEN LET s3 == IF KeyPreviousRemove \in DOMAIN labels
                                THEN delete_label(s2, node, KeyPreviousRemove, token)
                                ELSE s2
                      IN  post_label(s3, node, KeyPreviousRemove, Wildcard, token)
                 ELSE s2
        ELSE s1

\* sync_node(node, token); published is the 'previous' list that the node's
\* release metadata holds
sync_node(s, node, published, token) ==
    IF s.failed THEN s
    ELSE LET labels == s.remote[node.version]
             s1 == get_labels(s, node)
             s2 == sync_channels(s1, node, labels, token)
             s3 == sync_next(s2, node, labels, token)
             s4 == IF declared_previous(node) # {}
                   THEN sync_previous(s3, node, labels, published, token)
                   ELSE sync_no_previous(s3, node, labels, published, token)
         IN  IF s4.failed THEN s4 ELSE [s4 EXCEPT !.done = Append(@, node.version)]

RECURSIVE push_loop(_, _, _, _, _)

\* push_loop that catches the exception of a node and goes on to the next
push_loop_catches(s, order, ns, published, token) ==
    IF order = <<>> THEN s
    ELSE push_loop(sync_node([s EXCEPT !.failed = FALSE], ns[Head(order)],
                             published[Head(order)], token),
                   Tail(order), ns, published, token)

\* lines 74-75: for node in nodes.values(): sync_node(node, token)
push_loop(s, order, ns, published, token) ==
    IF order = <<>> \/ s.failed THEN s
    ELSE push_loop(sync_node(s, ns[Head(order)], published[Head(order)], token),
                   Tail(order), ns, published, token)

-----------------------------------------------------------------------------
(* Initial states *)

NoRun ==
    [op |-> "none", token |-> FALSE, before |-> remote0, resync |-> FALSE,
     load |-> [err |-> "none", at |-> 0, edges |-> EmptyDict],
     calls |-> <<>>, out |-> <<>>, done |-> <<>>, failed |-> FALSE,
     failAt |-> 0, lost |-> FALSE]

\* the tuples of 1..MaxEntries entries drawn from S
Entries(S) == UNION {[1..n -> S] : n \in 1..MaxEntries}

\* label values as any writer may have left them: entries may be empty,
\* repeated, unsorted or the wildcard
PreviousValues == {join(Comma, e) : e \in Entries(Versions \cup {<<>>, Wildcard})}

ChannelValues == {join(Comma, e) : e \in Entries(Channels \cup {<<>>})}

ValuesOf(key) ==
    IF key = KeyChannels THEN ChannelValues
    ELSE IF key \in {KeyPreviousAdd, KeyPreviousRemove} THEN PreviousValues
    ELSE {<<"1">>}

\* label values as this program writes them
WrittenValuesOf(key) ==
    IF key = KeyChannels
    THEN {join(Comma, sorted(C)) : C \in (SUBSET Channels) \ {{}}}
    ELSE IF key \in {KeyPreviousAdd, KeyPreviousRemove}
    THEN {join(Comma, sorted(P)) : P \in (SUBSET Versions) \ {{}}} \cup {Wildcard}
    ELSE {<<"1">>}

\* the label mappings of a manifest with no label or with one, whose value
\* is one this program writes (written) or any
LabelMaps(written) ==
    {EmptyDict}
        \cup UNION {{(k :> value) :
                         value \in IF written THEN WrittenValuesOf(k) ELSE ValuesOf(k)} :
                        k \in Keys}

\* the label mappings of a manifest with any of the five labels, each with a
\* value this program writes
WrittenLabelMaps ==
    UNION {{l \in [D -> UNION {WrittenValuesOf(k) : k \in D}] :
                \A k \in D : l[k] \in WrittenValuesOf(k)} : D \in SUBSET Keys}

\* the nodes of version v that the loaders can return
NodesOf(v) ==
    LET bare == {with_metadata([version |-> v, channels |-> C]) :
                     C \in (SUBSET Channels) \ {{}}}
    IN  bare \cup {("previous" :> P) @@ n :
                       n \in bare, P \in (SUBSET Versions) \ {{}}}

\* SpecSync: one loaded node and its manifest
InitSync ==
    /\ channelFiles = <<>>
    /\ edgeFiles = <<>>
    /\ \E n \in NodesOf(<<"1">>) : nodes = (<<"1">> :> n)
    /\ meta \in [{<<"1">>} -> SUBSET Versions]
    /\ remote \in [{<<"1">>} -> LabelMaps(FALSE) \cup WrittenLabelMaps]
    /\ remote0 = remote
    /\ run = NoRun

PushVersions == {<<VersionChars[i]>> : i \in 1..NumNodes}

\* channels/<c>/<version>.json for every channel c of C and every version
ChannelDir(C) ==
    LET cs == sorted(C)
    IN  [k \in 1..(Len(cs) * NumNodes) |->
            [channel |-> cs[((k - 1) \div NumNodes) + 1],
             version |-> <<VersionChars[((k - 1) % NumNodes) + 1]>>]]

\* edges/<from>-<to>.json from every version of P to every version
EdgeDir(P) ==
    LET ps == sorted(P)
    IN  [k \in 1..(Len(ps) * NumNodes) |->
            [from |-> ps[((k - 1) \div NumNodes) + 1],
             to |-> <<VersionChars[((k - 1) % NumNodes) + 1]>>,
             channels |-> Channels]]

\* Spec: NumNodes nodes of every channel, declared with the same incoming
\* edges, whose manifests start alike, with labels this program wrote
Init ==
    /\ channelFiles = ChannelDir(Channels)
    /\ \E P \in SUBSET (Versions \cap PushVersions) : edgeFiles = EdgeDir(P)
    /\ nodes = EmptyDict
    /\ \E M \in SUBSET Versions : meta = [v \in PushVersions |-> M]
    /\ \E l \in LabelMaps(TRUE) : remote = [v \in PushVersions |-> l]
    /\ remote0 = remote
    /\ run = NoRun

ChannelFileSet == {[channel |-> c, version |-> v] : c \in Channels, v \in Versions}

\* the files of F in some order
RECURSIVE Listing(_)
Listing(F) ==
    IF F = {} THEN <<>>
    ELSE LET f == CHOOSE x \in F : TRUE IN <<f>> \o Listing(F \ {f})

EdgeFileSet ==
    {[from |-> f, to |-> t, channels |-> C] :
         f \in Versions, t \in Versions, C \in SUBSET Channels}

\* SpecLoad: any directory over Versions and Channels with at most
\* MaxEdgeFiles edge files, read in any order, and a registry without labels
InitLoad ==
    /\ \E F \in SUBSET ChannelFileSet : channelFiles = Listing(F)
    /\ edgeFiles \in UNION {[1..n -> EdgeFileSet] : n \in 0..MaxEdgeFiles}
    /\ nodes = EmptyDict
    /\ meta = [v \in Versions |-> {}]
    /\ remote = [v \in Versions |-> EmptyDict]
    /\ remote0 = remote
    /\ run = NoRun

-----------------------------------------------------------------------------
(* Operations *)

\* the requests a run sends when none fails
all_calls(order, ns, token) ==
    push_loop(start(remote, 0, FALSE), order, ns, meta, token).calls

\* the record of a run that ended in state s
ran(op, token, ld, s) ==
    [op |-> op, token |-> token, before |-> remote,
     resync |-> run.op = op /\ run.token /\ ~run.failed /\ run.load.err = "none",
     load |-> [err |-> ld.err, at |-> ld.at, edges |-> ld.edges],
     calls |-> s.calls, out |-> s.out, done |-> s.done,
     failed |-> s.failed, failAt |-> s.failAt, lost |-> s.lost]

\* one request of the run may fail (failAt), before or after taking effect
Failures(calls) ==
    {[failAt |-> 0, lost |-> FALSE]}
        \cup UNION {{[failAt |-> i, lost |-> b] :
                         b \in {FALSE} \cup {calls[i].method # "GET"}} :
                        i \in 1..Len(calls)}

\* push(directory='.', token): the graph is loaded, then every node synced
Push(token) ==
    \E ld \in {load_edges(edgeFiles, load_nodes(channelFiles))} :
    \E order \in {IF ld.err = "none" THEN node_order(channelFiles, {}) ELSE <<>>} :
    \E f \in Failures(all_calls(order, ld.nodes, token)) :
    \E s \in {push_loop(start(remote, f.failAt, f.lost), order, ld.nodes, meta, token)} :
        /\ nodes' = ld.nodes
        /\ remote' = s.remote
        /\ run' = ran("push", token, ld, s)
        /\ UNCHANGED <<channelFiles, edgeFiles, meta, remote0>>

\* lines 72-73 of push: load_nodes, then load_edges
LoadGraph ==
    \E ld \in {load_edges(edgeFiles, load_nodes(channelFiles))} :
        /\ nodes' = ld.nodes
        /\ run' = ran("load", FALSE, ld, start(remote, 0, FALSE))
        /\ UNCHANGED <<channelFiles, edgeFiles, meta, remote, remote0>>

\* sync_node(node, token) on a loaded node, every request succeeding
SyncNode(v, token) ==
    \E s \in {sync_node(start(remote, 0, FALSE), nodes[v], meta[v], token)} :
        /\ run.op \in {"none", "sync"}
        /\ remote' = s.remote
        /\ run' = ran("sync", token, NoRun.load, s)
        /\ UNCHANGED <<channelFiles, edgeFiles, nodes, meta, remote0>>

Next == \E token \in BOOLEAN : Push(token)

NextSync == \E v \in DOMAIN nodes, token \in BOOLEAN : SyncNode(v, token)

Spec == Init /\ [][Next]_vars

SpecSync == InitSync /\ [][NextSync]_vars

NextLoad == LoadGraph

SpecLoad == InitLoad /\ [][NextLoad]_vars

-----------------------------------------------------------------------------
(* What the last run did *)

\* sync_node(v) returned in the last run
Synced(v) == v \in Range(run.done)

\* sync_node(v) returned in the last run, which had a token
TokenSynced(v) == run.token /\ Synced(v)

\* the labels of v's manifest that get_labels read in the last run
Observed(v) == run.before[v]

\* the positions, among the requests of the last run, of the deletes and of
\* the creates of v's label key
DeletesOf(v, key) ==
    {i \in DOMAIN run.calls :
         /\ run.calls[i].method = "DELETE"
         /\ run.calls[i].uri = <<v, "labels", key>>}

PostsOf(v, key) ==
    {i \in DOMAIN run.calls :
         /\ run.calls[i].method = "POST"
         /\ run.calls[i].uri = <<v, "labels">>
         /\ run.calls[i].body[1] = key}

PostedValue(i) == run.calls[i].body[2]

IsMutation(request) == request.method # "GET"

\* the line that delete_label or post_label prints for a request
LineOf(request) ==
    [version |-> request.uri[1],
     verb |-> IF request.method = "DELETE" THEN "delete" ELSE "post",
     uri |-> request.uri]

\* at most one delete and one create of v's label key; DeleteCreate: exactly
\* one of each, the delete first; CreateOnly, DeleteOnly, Untouched likewise
DeleteCreate(v, key) ==
    /\ Cardinality(DeletesOf(v, key)) = 1
    /\ Cardinality(PostsOf(v, key)) = 1
    /\ \A i \in DeletesOf(v, key), j \in PostsOf(v, key) : i < j

CreateOnly(v, key) ==
    DeletesOf(v, key) = {} /\ Cardinality(PostsOf(v, key)) = 1

Untouched(v, key) == DeletesOf(v, key) = {} /\ PostsOf(v, key) = {}

-----------------------------------------------------------------------------
(* Claims *)

\* C1 (SpecSync): a sync_node that follows a sync_node of the same node which
\* had a token and saw no request fail, the registry not having changed in
\* between, calls neither delete_label nor post_label: it prints no line and
\* sends nothing but reads.
SecondSyncIsNoOp ==
    run.resync =>
        /\ run.out = <<>>
        /\ \A i \in DOMAIN run.calls : ~IsMutation(run.calls[i])
        /\ remote = run.before

\* a second sync after a first one that had to change the manifest's labels
SecondSyncAfterChange == run.resync /\ run.op = "sync" /\ run.before # remote0

\* C2 (SpecSync): without a token sync_node sends no DELETE and no POST and
\* the registry's labels stay as they were, while the lines delete_label and
\* post_label print are, in order, those of the requests that sync_node sends
\* with a token from the same labels.
DryRunOnlyLogs ==
    (run.op = "sync" /\ ~run.token) =>
        LET v == CHOOSE n \in DOMAIN nodes : TRUE
            issued == SelectSeq(sync_node(start(run.before, 0, FALSE), nodes[v],
                                          meta[v], TRUE).calls, IsMutation)
        IN  /\ remote = run.before
            /\ \A i \in DOMAIN run.calls : ~IsMutation(run.calls[i])
            /\ run.out = [i \in 1..Len(issued) |-> LineOf(issued[i])]

\* a dry run that decided on a delete and a create
DryRunWithWork == run.op = "sync" /\ ~run.token /\ Len(run.out) >= 2

\* C3 (SpecSync), as claimed: when the release.channels label is absent or its
\* value is not the desired one, sync_node deletes the existing label, if any,
\* and then creates the label with the desired value; when the value is the
\* desired one it neither deletes nor creates the label.
ChannelsDeleteThenCreate ==
    \A v \in DOMAIN nodes :
        TokenSynced(v) =>
            LET want == nodes[v].metadata[KeyChannels]
                labels == Observed(v)
            IN  IF KeyChannels \notin DOMAIN labels
                THEN CreateOnly(v, KeyChannels)
                     /\ \A j \in PostsOf(v, KeyChannels) : PostedValue(j) = want
                ELSE IF labels[KeyChannels] # want
                THEN DeleteCreate(v, KeyChannels)
                     /\ \A j \in PostsOf(v, KeyChannels) : PostedValue(j) = want
                ELSE Untouched(v, KeyChannels)

\* C3, what the code does: the same, but a label that is present with the
\* empty string as its value is not deleted before the create.
ChannelsStepOfTheCode ==
    \A v \in DOMAIN nodes :
        TokenSynced(v) =>
            LET want == nodes[v].metadata[KeyChannels]
                labels == Observed(v)
            IN  IF Get(labels, KeyChannels, <<>>) = <<>>
                THEN CreateOnly(v, KeyChannels)
                     /\ \A j \in PostsOf(v, KeyChannels) : PostedValue(j) = want
                ELSE IF labels[KeyChannels] # want
                THEN DeleteCreate(v, KeyChannels)
                     /\ \A j \in PostsOf(v, KeyChannels) : PostedValue(j) = want
                ELSE Untouched(v, KeyChannels)

\* C4 (SpecSync): sync_node deletes next.add and next.remove when the labels
\* it read hold them, whatever the node declares; no request ever creates
\* either, so neither is on a manifest that did not start with it; and after
\* a sync_node with a token that returned, neither is on the manifest.
RetiredLabelsPurged ==
    \A v \in DOMAIN remote : \A key \in {KeyNextAdd, KeyNextRemove} :
        /\ PostsOf(v, key) = {}
        /\ key \in DOMAIN remote[v] => key \in DOMAIN remote0[v]
        /\ TokenSynced(v) =>
               /\ key \notin DOMAIN remote[v]
               /\ key \in DOMAIN Observed(v) => Cardinality(DeletesOf(v, key)) = 1
        /\ (Synced(v) /\ key \in DOMAIN Observed(v)) =>
               \E i \in DOMAIN run.out :
                   run.out[i] = [version |-> v, verb |-> "delete",
                                 uri |-> <<v, "labels", key>>]

\* a sync with a token of a node with incoming edges whose manifest held both
\* retired labels
RetiredLabelsWereThere ==
    \E v \in DOMAIN nodes :
        /\ TokenSynced(v)
        /\ {KeyNextAdd, KeyNextRemove} \subseteq DOMAIN Observed(v)
        /\ declared_previous(nodes[v]) # {}

\* the set that the label key of a node with incoming edges is to spell:
\* want_removed for previous.remove, want_added for previous.add
WantOf(v, key) ==
    IF key = KeyPreviousRemove
    THEN meta[v] \ declared_previous(nodes[v])
    ELSE declared_previous(nodes[v]) \ meta[v]

\* C5 (SpecSync), as claimed: after a sync_node with a token that returned,
\* of a node with incoming edges, previous.remove and previous.add each have
\* the sorted comma-joined want set as value when it is not empty, and are
\* absent when it is empty.
PreviousLabelsAreSortedJoin ==
    \A v \in DOMAIN nodes : \A key \in {KeyPreviousRemove, KeyPreviousAdd} :
        (TokenSynced(v) /\ declared_previous(nodes[v]) # {}) =>
            IF WantOf(v, key) = {}
            THEN key \notin DOMAIN remote[v]
            ELSE /\ key \in DOMAIN remote[v]
                 /\ remote[v][key] = join(Comma, sorted(WantOf(v, key)))

\* C5, amended: after such a sync_node the non-empty comma-separated entries
\* of each of the two labels are the want set (none for an absent label); a
\* label whose entries were the want set already is left as it was, and any
\* other is absent when the want set is empty and its sorted comma-join
\* otherwise.
PreviousLabelsSpellWant ==
    \A v \in DOMAIN nodes : \A key \in {KeyPreviousRemove, KeyPreviousAdd} :
        (TokenSynced(v) /\ declared_previous(nodes[v]) # {}) =>
            LET want == WantOf(v, key)
                old == Observed(v)
                new == remote[v]
            IN  /\ versions_of(Get(new, key, <<>>)) = want
                /\ IF versions_of(Get(old, key, <<>>)) = want
                   THEN /\ Untouched(v, key)
                        /\ (key \in DOMAIN new) = (key \in DOMAIN old)
                        /\ key \in DOMAIN new => new[key] = old[key]
                   ELSE IF want = {}
                   THEN key \notin DOMAIN new
                   ELSE /\ key \in DOMAIN new
                        /\ new[key] = join(Comma, sorted(want))

\* a sync that replaced a previous.remove label by a version, and one that
\* left alone a previous.add label spelling two versions
PreviousRemoveRewritten ==
    \E v \in DOMAIN nodes :
        /\ TokenSynced(v)
        /\ declared_previous(nodes[v]) # {}
        /\ KeyPreviousRemove \in DOMAIN Observed(v)
        /\ WantOf(v, KeyPreviousRemove) # {}
        /\ DeletesOf(v, KeyPreviousRemove) # {}
        /\ PostsOf(v, KeyPreviousRemove) # {}

\* C6 (SpecSync): after a sync_node with a token that returned, of a node
\* without incoming edges, previous.add is absent; if the release metadata
\* lists a previous version, previous.remove is "*", a label with another
\* value having been deleted before the create; if it lists none, sync_node
\* neither deletes nor creates previous.remove.
NoPreviousMeansWildcard ==
    \A v \in DOMAIN nodes :
        (TokenSynced(v) /\ declared_previous(nodes[v]) = {}) =>
            /\ KeyPreviousAdd \notin DOMAIN remote[v]
            /\ PostsOf(v, KeyPreviousAdd) = {}
            /\ IF meta[v] # {}
               THEN /\ KeyPreviousRemove \in DOMAIN remote[v]
                    /\ remote[v][KeyPreviousRemove] = Wildcard
                    /\ IF KeyPreviousRemove \notin DOMAIN Observed(v)
                       THEN CreateOnly(v, KeyPreviousRemove)
                       ELSE IF Observed(v)[KeyPreviousRemove] # Wildcard
                       THEN DeleteCreate(v, KeyPreviousRemove)
                       ELSE Untouched(v, KeyPreviousRemove)
               ELSE /\ Untouched(v, KeyPreviousRemove)
                    /\ (KeyPreviousRemove \in DOMAIN remote[v])
                           = (KeyPreviousRemove \in DOMAIN Observed(v))

\* a sync of a node without incoming edges that replaced a previous.remove
\* label by the wildcard
WildcardReplacedALabel ==
    \E v \in DOMAIN nodes :
        /\ TokenSynced(v)
        /\ declared_previous(nodes[v]) = {}
        /\ meta[v] # {}
        /\ KeyPreviousRemove \in DOMAIN Observed(v)
        /\ DeletesOf(v, KeyPreviousRemove) # {}

\* C10 (SpecSync): among the requests of a sync_node there is, for every
\* label key, at most one delete and at most one create, a delete only when
\* the labels read at the start hold the key, and the delete before the
\* create; a previous.add label whose entries are not the non-empty
\* want_added gets one delete, then one create; and a previous.remove label
\* that is missing and has to be "*" gets one create and no delete.
OneDeleteThenOneCreate ==
    \A v \in DOMAIN nodes :
        /\ \A key \in Keys :
               /\ Cardinality(DeletesOf(v, key)) <= 1
               /\ Cardinality(PostsOf(v, key)) <= 1
               /\ DeletesOf(v, key) # {} => key \in DOMAIN Observed(v)
               /\ \A i \in DeletesOf(v, key), j \in PostsOf(v, key) : i < j
        /\ Cardinality({i \in DOMAIN run.calls : IsMutation(run.calls[i])})
               = Cardinality(UNION {DeletesOf(v, key) \cup PostsOf(v, key) :
                                        key \in Keys})
        /\ TokenSynced(v) =>
               LET want_added == WantOf(v, KeyPreviousAdd)
                   labels == Observed(v)
               IN  /\ ( /\ declared_previous(nodes[v]) # {}
                        /\ KeyPreviousAdd \in DOMAIN labels
                        /\ versions_of(Get(labels, KeyPreviousAdd, <<>>)) # want_added
                        /\ want_added # {} )
                          => DeleteCreate(v, KeyPreviousAdd)
                   /\ ( /\ declared_previous(nodes[v]) = {}
                        /\ KeyPreviousRemove \notin DOMAIN labels
                        /\ meta[v] # {} )
                          => /\ CreateOnly(v, KeyPreviousRemove)
                             /\ \A j \in PostsOf(v, KeyPreviousRemove) :
                                    PostedValue(j) = Wildcard

\* previous.add is "1", the node declares the previous versions 1 and 2 and
\* the release metadata lists 1: one delete, then one create of "2"
PreviousAddExtended ==
    \E v \in DOMAIN nodes :
        /\ TokenSynced(v)
        /\ declared_previous(nodes[v]) = {<<"1">>, <<"2">>}
        /\ meta[v] = {<<"1">>}
        /\ KeyPreviousAdd \in DOMAIN Observed(v)
        /\ Observed(v)[KeyPreviousAdd] = <<"1">>
        /\ DeleteCreate(v, KeyPreviousAdd)
        /\ \A j \in PostsOf(v, KeyPreviousAdd) : PostedValue(j) = <<"2">>

\* the registry's labels after the requests, in order, have taken effect
RECURSIVE Replay(_, _)
Replay(labels, requests) ==
    IF requests = <<>> THEN labels
    ELSE LET r == Head(requests)
             next == IF r.method = "DELETE"
                     THEN registry_delete(labels, r.uri[1], r.uri[3])
                     ELSE IF r.method = "POST"
                     THEN registry_post(labels, r.uri[1], r.body[1], r.body[2])
                     ELSE labels
         IN  Replay(next, Tail(requests))

\* the position of version v in the order in which push syncs the nodes
PushIndex(v) ==
    LET order == node_order(channelFiles, {})
    IN  CHOOSE i \in 1..Len(order) : order[i] = v

\* the registry's labels after a push with a token from the initial state in
\* which no request fails
Uninterrupted ==
    push_loop(start(remote0, 0, FALSE), node_order(channelFiles, {}),
              load_edges(edgeFiles, load_nodes(channelFiles)).nodes, meta, TRUE).remote

\* C7 (Spec): push sends the requests of one node after those of the nodes
\* before it; the request that fails is the last one the run sends and no
\* node after it is synced; the labels are then those that the requests sent
\* before it left (with or without the effect of the failing one); and a
\* push with a token in which no request fails, from whatever labels earlier
\* runs left, ends with the labels of an uninterrupted push.
FailedPushStopsAndReruns ==
    run.op = "push" =>
        /\ \A i \in DOMAIN run.calls : \A j \in DOMAIN run.calls :
               i < j => PushIndex(run.calls[i].uri[1]) <= PushIndex(run.calls[j].uri[1])
        /\ \A i \in DOMAIN run.done : PushIndex(run.done[i]) = i
        /\ run.failAt > 0 =>
               /\ run.failed
               /\ Len(run.calls) = run.failAt
               /\ \A v \in DOMAIN remote :
                      PushIndex(v) >= PushIndex(run.calls[run.failAt].uri[1])
                          => ~Synced(v)
               /\ \A v \in DOMAIN remote :
                      PushIndex(v) > PushIndex(run.calls[run.failAt].uri[1])
                          => remote[v] = run.before[v]
        /\ remote = Replay(run.before,
                           IF run.failed /\ ~run.lost
                           THEN SubSeq(run.calls, 1, Len(run.calls) - 1)
                           ELSE run.calls)
        /\ (run.token /\ ~run.failed) => remote = Uninterrupted

\* a push that completed the work of an earlier push, which failed after it
\* had changed labels
RerunCompleted ==
    /\ run.op = "push"
    /\ run.token
    /\ ~run.failed
    /\ run.before # remote0
    /\ run.before # remote
    /\ \E v \in DOMAIN remote : run.before[v] = remote[v] /\ remote[v] # remote0[v]

\* the channels that the nodes of an edge file share, when both are nodes
SharedChannels(edge) ==
    LET ns == load_nodes(channelFiles)
    IN  ns[edge.from].channels \cap ns[edge.to].channels

BothAreNodes(edge) ==
    {edge.from, edge.to} \subseteq DOMAIN load_nodes(channelFiles)

\* C8 (SpecLoad): load_edges raises at the latest at the first edge between
\* two nodes whose channels are not the channels the two nodes share, and
\* when it raises there for that reason the edge's from-version has not been
\* added to the to-node's previous set; when load_edges returns, every edge
\* has the channels its two nodes share and the previous set of every node is
\* the set of the from-versions of the edges that point to it.
EdgesHaveSharedChannels ==
    run.op = "load" =>
        /\ \A i \in DOMAIN edgeFiles :
               (BothAreNodes(edgeFiles[i])
                    /\ edgeFiles[i].channels # SharedChannels(edgeFiles[i]))
                   => /\ run.load.err # "none"
                      /\ run.load.at <= i
        /\ run.load.err = "channels" =>
               LET edge == edgeFiles[run.load.at]
               IN  /\ edge.channels # SharedChannels(edge)
                   /\ edge.from \notin declared_previous(nodes[edge.to])
        /\ run.load.err = "none" =>
               /\ \A i \in DOMAIN edgeFiles :
                      edgeFiles[i].channels = SharedChannels(edgeFiles[i])
               /\ \A v \in DOMAIN nodes :
                      declared_previous(nodes[v])
                          = {edgeFiles[i].from :
                                 i \in {j \in DOMAIN edgeFiles : edgeFiles[j].to = v}}

\* load_edges raised at the second edge, whose channels are fewer than the
\* shared ones, after it had loaded the first
SecondEdgeRefused ==
    /\ run.op = "load"
    /\ run.load.err = "channels"
    /\ run.load.at = 2
    /\ edgeFiles[2].channels # {}
    /\ declared_previous(nodes[edgeFiles[1].to]) # {}

\* C9 (SpecLoad): when two edge files have the same from and to, load_edges
\* raises, at the second of them at the latest, and when it gets to the second
\* the error is the one of a duplicate, whatever the channels of the two; so
\* when load_edges returns, no two files have the same from and to and the
\* edges loaded are as many as the files.
DuplicateEdgeRefused ==
    run.op = "load" =>
        /\ \A i \in DOMAIN edgeFiles : \A j \in DOMAIN edgeFiles :
               ( /\ i < j
                 /\ edgeFiles[i].from = edgeFiles[j].from
                 /\ edgeFiles[i].to = edgeFiles[j].to )
                   => /\ run.load.err # "none"
                      /\ run.load.at <= j
                      /\ run.load.at = j => run.load.err = "duplicate"
        /\ run.load.err = "none" =>
               /\ Cardinality(DOMAIN run.load.edges) = Len(edgeFiles)
               /\ \A i \in DOMAIN edgeFiles :
                      run.load.edges[<<edgeFiles[i].from, edgeFiles[i].to>>]
                          = edgeFiles[i]

\* the second file repeats the first edge with other channels, which are not
\* the channels its nodes share
DuplicateWithOtherChannels ==
    /\ run.op = "load"
    /\ run.load.err = "duplicate"
    /\ run.load.at = 2
    /\ edgeFiles[2].channels # edgeFiles[1].channels
    /\ BothAreNodes(edgeFiles[2])
    /\ edgeFiles[2].channels # SharedChannels(edgeFiles[2])

====
